---- MODULE Spec2Model ----
(***************************************************************************)
(* Straussome: the task execution engine (AgentOrchestrator) together with *)
(* the background runner of the API layer that drives it.                  *)
(*                                                                         *)
(* One step of the model is one run of a coroutine between two suspension  *)
(* points of the asyncio event loop: code between two awaits is atomic.    *)
(* Time is abstract: a backoff sleep ends when wake fires, and the task    *)
(* deadline (asyncio.wait_for) may fire at any suspension point of the     *)
(* plan.                                                                   *)
(*                                                                         *)
(* The graph library (graph.ainvoke) is taken to run the nodes one after   *)
(* the other along the edges, to hand each node its own AgentState built   *)
(* from the graph's current values (so the object execute_task created is  *)
(* never written by a node), to return the final values as a dict          *)
(* (routes.py reads them by key), and to let a node's exception leave      *)
(* ainvoke.                                                                *)
(***************************************************************************)
EXTENDS Integers, Sequences, FiniteSets, TLC

(***************************************************************************)
(* Bounds of the model                                                     *)
(***************************************************************************)
\* max_retries of the engine's configuration (TaskConfig's default is 3)
MaxRetries == 2
\* max_retries of a tool's configuration (ToolConfig's default is 2)
ToolMaxRetries == 1
\* cache_ttl of a tool's configuration, in clock ticks (the default is 300 s)
CacheTtl == 2
\* the last tick of the clock (time.time())
MaxTime == 3

(***************************************************************************)
(* Inputs                                                                  *)
(***************************************************************************)
Tasks == {"t1", "t2"}
\* agent ids passed to register_agent
Registered == {"a", "b"}
\* agent ids that may be named in a sequence
AgentIds == Registered \cup {"x"}

\* sequences of distinct agent ids
RECURSIVE SeqsOver(_, _)
SeqsOver(S, n) ==
    IF n = 0 THEN {<<>>}
    ELSE {<<>>} \cup
         UNION {{<<h>> \o s : s \in SeqsOver(S \ {h}, n - 1)} : h \in S}

\* the agent sequences a task may be submitted with: the first task any
\* sequence of distinct ids, the other tasks one step
AgentSequences(t) ==
    IF t = "t1" THEN SeqsOver(AgentIds, Cardinality(AgentIds)) \ {<<>>}
    ELSE {<<a>> : a \in AgentIds}

NoConfig == [max_retries |-> -1, retry_delay |-> 0, retry_backoff |-> 0,
             concurrent_agents |-> 0]

\* the TaskConfig the engine is constructed with: the defaults of TaskConfig
\* for the delays, a bounded max_retries, and a ceiling that two tasks can
\* reach (1) or cannot (2)
EngineConfigs ==
    [max_retries : {MaxRetries}, retry_delay : {1}, retry_backoff : {2},
     concurrent_agents : {1, 2}]

\* the TaskConfig a request may carry: fewer or more retries than the
\* engine's, other delays, a ceiling of one
CustomConfigs ==
    [max_retries : {0, MaxRetries + 1}, retry_delay : {2},
     retry_backoff : {3}, concurrent_agents : {1}]

(***************************************************************************)
(* Values                                                                  *)
(***************************************************************************)
NoError == [kind |-> "none", agent |-> "-", n |-> 0]
\* str(e) of the exception the agent's logic raised on attempt n (from 1)
ExecError(a, n) == [kind |-> "agent_raised", agent |-> a, n |-> n]
\* "Agent <a> not registered"
NotRegistered(a) == [kind |-> "not_registered", agent |-> a, n |-> 0]
\* "'<class>' object has no attribute 'cleanup'"
NoCleanupAttr(a) == [kind |-> "no_attribute_cleanup", agent |-> a, n |-> 0]
\* "Task timeout"
TaskTimeout == [kind |-> "task_timeout", agent |-> "-", n |-> 0]
\* "'AgentState' object is not subscriptable"
NotSubscriptable == [kind |-> "not_subscriptable", agent |-> "-", n |-> 0]

\* f"{agent_id}_result"
ResultKey(a) == <<a, "_result">>
\* the value an agent stores for a task
ResultValue(a, t) == <<"result_of", a, t>>
Null == <<"null">>
EmptyDict == [k \in {} |-> Null]
DictPut(d, k, v) == [x \in DOMAIN d \cup {k} |-> IF x = k THEN v ELSE d[x]]
DictGet(d, k) == IF k \in DOMAIN d THEN d[k] ELSE Null

\* initial_data of execute_task: what the request gives the steps to work on
initial_data(t) == DictPut(EmptyDict, <<"input", "_data">>, <<"given", "-", t>>)

\* a history entry: an attempt's logic began ("begin"), returned ("ok"),
\* raised ("raise") or was cancelled ("cancelled"); the agent's cleanup() ran
\* ("cleanup"); a backoff sleep ended ("slept"); the task deadline expired
\* ("deadline")
Event(e, a) == [ev |-> e, agent |-> a]

\* AgentResult
AgentResult(a, t, st) ==
    [agent_id |-> a, task_id |-> t, status |-> st, result |-> Null,
     error |-> NoError, retry_count |-> 0]
NoAgentResult == AgentResult("-", "-", "none")

\* AgentState; agent_results is the dict in insertion order
AgentState(t, data) ==
    [task_id |-> t, agent_results |-> <<>>, shared_data |-> data,
     error |-> NoError, status |-> "unset"]

(***************************************************************************)
(* Values of the tool layer (BaseTool)                                     *)
(***************************************************************************)
\* the coroutines that invoke the one tool instance
Callers == {"c1", "c2"}
\* self.name
ToolName == "tool"
\* the names a tool may be registered or asked for under
ToolNames == {ToolName, "fetcher", "llm"}
\* the names callers ask the registry for
AskedNames == {ToolName, "llm"}

\* a value json.dumps serialises (a number, a string, a list, a dict)
JsonValue(n) == <<"json", n>>
\* a value json.dumps raises TypeError for (bytes, a set, a datetime, an
\* object)
NotJson(n) == <<"object", n>>
\* a list, and the tuple with the same elements
ListValue(n) == <<"list", n>>
TupleValue(n) == <<"tuple", n>>

\* the text json.dumps writes for a value: a tuple is written as an array,
\* like the list with the same elements
json_dumps(v) == IF v[1] = "tuple" THEN <<"list", v[2]>> ELSE v

\* the keyword arguments of an invocation, as (name, value) pairs in the
\* order the caller wrote them: the same two arguments in both orders,
\* another argument, and an argument that is not JSON-serialisable
Kwargs ==
    {<< <<"x", JsonValue(1)>>, <<"y", JsonValue(2)>> >>,
     << <<"y", JsonValue(2)>>, <<"x", JsonValue(1)>> >>,
     << <<"x", JsonValue(2)>> >>,
     << <<"x", NotJson(1)>> >>}

\* json.dumps(sorted_kwargs, sort_keys=True) returns a string
json_serializable(kw) == \A i \in DOMAIN kw : kw[i][2][1] # "object"

\* _get_cache_key: the name and the items sorted by name, serialised and
\* hashed; the set of items stands for the sorted, serialised items
get_cache_key(name, kw) ==
    <<name, {<<kw[i][1], json_dumps(kw[i][2])>> : i \in DOMAIN kw}>>
NoKey == <<"-", {}>>

\* the keyword arguments _get_cache_key is applied to: the same two
\* arguments in both orders, one argument with different values, a list and
\* the tuple with the same elements, no argument
KeyKwargs ==
    {<< <<"x", JsonValue(1)>>, <<"y", JsonValue(2)>> >>,
     << <<"y", JsonValue(2)>>, <<"x", JsonValue(1)>> >>,
     << <<"x", JsonValue(1)>> >>,
     << <<"x", JsonValue(2)>> >>,
     << <<"x", ListValue(1)>> >>,
     << <<"x", TupleValue(1)>> >>,
     <<>>}

\* an application of _get_cache_key: the tool's name, the arguments, the key
NoKeyed == [name |-> "-", kwargs |-> <<>>, key |-> NoKey]

\* the ToolConfig of the instance
ToolConfigs ==
    [cache_enabled : BOOLEAN, cache_ttl : {CacheTtl},
     max_retries : {ToolMaxRetries}]

NoToolError == [kind |-> "none", n |-> 0, name |-> "-"]
\* str(e) of the exception that attempt n (from 1) of execute raised
Raised(n) == [kind |-> "raised", n |-> n, name |-> "-"]
\* "Tool <name> timed out after <timeout>s"
TimedOut == [kind |-> "timed_out", n |-> 0, name |-> ToolName]
\* the error of a ToolResult that execute itself returned with status FAILED
Reported == [kind |-> "reported", n |-> 0, name |-> "-"]
\* "Tool <name> not found"
NotFound(name) == [kind |-> "not_found", n |-> 0, name |-> name]
\* TypeError: Object of type <type> is not JSON serializable
NotSerializable == [kind |-> "type_error", n |-> 0, name |-> "-"]

\* the data an execution for `key` that returns at time `at` yields
DataOf(key, at) == [of |-> key, at |-> at]
NoData == DataOf(NoKey, -1)

\* ToolResult
ToolResult(st, data, err) == [status |-> st, data |-> data, error |-> err]
\* None
NoResult == ToolResult("none", NoData, NoToolError)

\* what an invocation found stored under its key when it started
NoSeen == [has |-> FALSE, age |-> 0, result |-> NoResult]

\* an invocation: where the coroutine is suspended (idle: not started, or
\* returned), its arguments, the loop variable and last_exception of
\* execute_with_retry, what __call__ returned; and as history what it found
\* in the cache when it started, how many executions of the operation it
\* began and how the last one that ended did ("completed", "reported",
\* "raised", "timed_out"), the name of the tool that was called or that the
\* registry was asked for, and the exception that left the invocation
\* towards the caller; kwargs are the arguments the tool was called with
IdleCall ==
    [pc |-> "idle", kwargs |-> <<>>, attempt |-> 0,
     last_exception |-> NoToolError, result |-> NoResult,
     seen |-> NoSeen, began |-> 0, how |-> "none", name |-> "-",
     raised |-> NoToolError]

VARIABLES
    config,        \* the engine's TaskConfig (self.config)
    cleanupDefined,\* per registered agent class: does it define cleanup()
    semaphore,     \* free slots of self.semaphore
    pc,            \* per task: where its coroutine is suspended
    agent_sequence,\* per task: the requested sequence
    custom_config, \* per task: the request's TaskConfig or NoConfig
    idx,           \* per task: index of the graph node that runs next / now
    attempt,       \* per task: loop variable of _execute_agent_with_retry
    agent_result,  \* per task: the AgentResult of the node in flight
    gstate,        \* per task: the state threaded through the graph nodes
    returned,      \* per task: what execute_task returned
    task_storage,  \* per task: the API's record (status, error)
    slept,         \* per task: total backoff slept, in delay units
    log,           \* per task: history of what happened to the agents' logic
    running_tasks, \* the engine's self.running_tasks (its keys)
    cancel_reply,  \* per task: what the last cancel request was answered
    task_results,  \* the engine's self.task_results: task id -> AgentState
    tool_config,   \* the tool's ToolConfig (self.config)
    now,           \* the clock, time.time()
    cache,         \* self._cache: cache key -> ToolResult
    cache_timestamps, \* self._cache_timestamps: cache key -> time stored
    call,          \* per caller: its invocation of the tool
    tools,         \* ToolRegistry.tools: the registered names, in dict order
    hook_fails,    \* the registered names whose cleanup() raises
    released,      \* the names whose cleanup() cleanup_all invoked, in order
    shutdown,      \* the shutdown of lifespan: "up", "cleaning", "clean",
                   \* "error"
    keyed          \* per caller: its last application of _get_cache_key

\* the state of the registry
registry_vars == <<tools, hook_fails, released, shutdown>>

\* the applications of _get_cache_key on their own
key_vars == <<keyed>>

\* the state of the tool layer
tool_vars == <<tool_config, now, cache, cache_timestamps, call>>

\* what the engine's execution path never writes
cancel_vars == <<running_tasks, cancel_reply, task_results>>

vars == <<config, cleanupDefined, semaphore, pc, agent_sequence, custom_config,
          idx, attempt, agent_result, gstate, returned, task_storage, slept,
          log, cancel_vars, tool_vars, registry_vars, key_vars>>

NotReturned == [kind |-> "none", state |-> AgentState("-", EmptyDict)]
NoRecord == [status |-> "absent", error |-> NoError, agent_results |-> <<>>]

\* BaseTool.__init__: both dicts empty, no invocation
ToolInitial(cfg) ==
    /\ tool_config = cfg
    /\ now = 0
    /\ cache = [k \in {} |-> NoResult]
    /\ cache_timestamps = [k \in {} |-> 0]
    /\ call = [c \in Callers |-> IdleCall]
    /\ keyed = [c \in Callers |-> NoKeyed]

\* the registry after startup registered the tool instance; no hook fails
RegistryInitial ==
    /\ tools = <<ToolName>>
    /\ hook_fails = {}
    /\ released = <<>>
    /\ shutdown = "up"

EngineInit ==
    /\ config \in EngineConfigs
    /\ cleanupDefined \in [Registered -> BOOLEAN]
    /\ semaphore = config.concurrent_agents
    /\ pc = [t \in Tasks |-> "none"]
    /\ agent_sequence = [t \in Tasks |-> <<>>]
    /\ custom_config = [t \in Tasks |-> NoConfig]
    /\ idx = [t \in Tasks |-> 0]
    /\ attempt = [t \in Tasks |-> 0]
    /\ agent_result = [t \in Tasks |-> NoAgentResult]
    /\ gstate = [t \in Tasks |-> AgentState(t, EmptyDict)]
    /\ returned = [t \in Tasks |-> NotReturned]
    /\ task_storage = [t \in Tasks |-> NoRecord]
    /\ slept = [t \in Tasks |-> 0]
    /\ log = [t \in Tasks |-> <<>>]
    /\ running_tasks = {}
    /\ cancel_reply = [t \in Tasks |-> "none"]
    /\ task_results = EmptyDict

\* the engine and a tool instance with ToolConfig's defaults (caching on)
Init ==
    /\ EngineInit
    /\ ToolInitial([cache_enabled |-> TRUE, cache_ttl |-> CacheTtl,
                    max_retries |-> ToolMaxRetries])
    /\ RegistryInitial

(***************************************************************************)
(* Helpers                                                                 *)
(***************************************************************************)
RECURSIVE Pow(_, _)
Pow(b, e) == IF e = 0 THEN 1 ELSE b * Pow(b, e - 1)

\* execute_task: config = custom_config or self.config (governs the deadline)
task_config(t) ==
    IF custom_config[t] = NoConfig THEN config ELSE custom_config[t]

\* _execute_agent_with_retry reads self.config, the engine's configuration
retry_config(t) == config

\* delay = retry_delay * retry_backoff ** (attempt - 1), before retry `n`
retry_delay_of(t, n) ==
    retry_config(t).retry_delay * Pow(retry_config(t).retry_backoff, n - 1)

\* _build_agent_graph: the first id of the sequence that is not registered,
\* or 0 when the graph is built
RECURSIVE FirstUnregistered(_, _)
FirstUnregistered(s, i) ==
    IF i > Len(s) THEN 0
    ELSE IF s[i] \notin Registered THEN i
    ELSE FirstUnregistered(s, i + 1)

\* faulty variant: only the entry node is looked up when the graph is built
build_agent_graph_entry_only(s) ==
    IF Len(s) > 0 /\ s[1] \notin Registered THEN 1 ELSE 0

build_agent_graph(s) == FirstUnregistered(s, 1)

\* faulty variant: the attempt runs without waiting for a slot
semaphore_never_waits == TRUE

\* async with self.semaphore: a slot is free
semaphore_free == semaphore > 0

\* the node in flight
CurrentAgent(t) == agent_sequence[t][idx[t]]

\* the graph edge out of node i: the next node (Len + 1 stands for __end__)
next_node(t, i) == i + 1

\* agent.cleanup() in the finally block of agent_node: BaseAgent defines no
\* such method, so the await raises AttributeError unless the class does
cleanup_raises(a) == ~cleanupDefined[a]

(***************************************************************************)
(* The API layer: execute_task_background after execute_task returned      *)
(***************************************************************************)
\* result['agent_results'] ... task_storage[task_id] = TaskResultResponse(...)
\* An AgentState (the except branches of execute_task) is not subscriptable:
\* the handler's own except branch records that error.
StorageAfter(ret) ==
    IF ret.kind = "AgentState"
    THEN [status |-> "failed", error |-> NotSubscriptable,
          agent_results |-> <<>>]
    ELSE [status |-> IF ret.state.error = NoError THEN "completed"
                     ELSE "failed",
          error |-> ret.state.error,
          agent_results |-> ret.state.agent_results]

\* faulty variant: the state is returned, the plan is not stopped
ReturnState_plan_goes_on(t, err) ==
    LET ret == [kind |-> "AgentState",
                state |-> [AgentState(t, initial_data(t)) EXCEPT
                              !.error = err, !.status = "failed"]]
    IN /\ returned' = [returned EXCEPT ![t] = ret]
       /\ task_storage' = [task_storage EXCEPT ![t] = StorageAfter(ret)]
       /\ UNCHANGED pc

\* faulty variant: the except branches record the error, not the status
ReturnState_without_status(t, err) ==
    LET ret == [kind |-> "AgentState",
                state |-> [AgentState(t, initial_data(t)) EXCEPT
                              !.error = err]]
    IN /\ returned' = [returned EXCEPT ![t] = ret]
       /\ task_storage' = [task_storage EXCEPT ![t] = StorageAfter(ret)]
       /\ pc' = [pc EXCEPT ![t] = "done"]

\* execute_task's except branches: the state built at the start of
\* execute_task is returned with the error and status FAILED
ReturnState(t, err) ==
    LET ret == [kind |-> "AgentState",
                state |-> [AgentState(t, initial_data(t)) EXCEPT
                              !.error = err, !.status = "failed"]]
    IN /\ returned' = [returned EXCEPT ![t] = ret]
       /\ task_storage' = [task_storage EXCEPT ![t] = StorageAfter(ret)]
       /\ pc' = [pc EXCEPT ![t] = "done"]

\* execute_task's normal return: the graph's final values
ReturnResult(t, final) ==
    LET ret == [kind |-> "dict", state |-> final]
    IN /\ returned' = [returned EXCEPT ![t] = ret]
       /\ task_storage' = [task_storage EXCEPT ![t] = StorageAfter(ret)]
       /\ pc' = [pc EXCEPT ![t] = "done"]

(***************************************************************************)
(* Actions                                                                 *)
(***************************************************************************)
\* POST /tasks: the record is stored PENDING and the run is scheduled
create_task(t) ==
    /\ pc[t] = "none"
    /\ \E s \in AgentSequences(t), c \in CustomConfigs \cup {NoConfig} :
          /\ agent_sequence' = [agent_sequence EXCEPT ![t] = s]
          /\ custom_config' = [custom_config EXCEPT ![t] = c]
    /\ task_storage' = [task_storage EXCEPT ![t] =
                           [NoRecord EXCEPT !.status = "pending"]]
    /\ pc' = [pc EXCEPT ![t] = "pending"]
    /\ UNCHANGED <<tool_vars, cancel_vars, registry_vars, key_vars>>
    /\ UNCHANGED <<config, cleanupDefined, semaphore, idx, attempt,
                   agent_result, gstate, returned, slept, log>>

\* execute_task_background up to the first suspension of execute_task:
\* status RUNNING, the state is initialised and the graph is built
execute_task(t) ==
    /\ pc[t] = "pending"
    /\ gstate' = [gstate EXCEPT ![t] = AgentState(t, initial_data(t))]
    /\ LET bad == build_agent_graph(agent_sequence[t])
       IN IF bad # 0
          THEN /\ ReturnState(t, NotRegistered(agent_sequence[t][bad]))
               /\ UNCHANGED idx
          ELSE /\ pc' = [pc EXCEPT ![t] = "sched"]
               /\ idx' = [idx EXCEPT ![t] = 1]
               /\ task_storage' = [task_storage EXCEPT ![t].status = "running"]
               /\ UNCHANGED returned
    /\ UNCHANGED <<tool_vars, cancel_vars, registry_vars, key_vars>>
    /\ UNCHANGED <<config, cleanupDefined, semaphore, agent_sequence,
                   custom_config, attempt, agent_result, slept, log>>

\* entering agent.execute under the semaphore, or queueing for a slot
EnterSemaphore(t, l) ==
    IF semaphore_free
    THEN /\ semaphore' = semaphore - 1
         /\ pc' = [pc EXCEPT ![t] = "exec"]
         /\ log' = [log EXCEPT ![t] = Append(l, Event("begin", CurrentAgent(t)))]
    ELSE /\ pc' = [pc EXCEPT ![t] = "wait_sem"]
         /\ log' = [log EXCEPT ![t] = l]
         /\ UNCHANGED semaphore

\* the graph schedules node idx: agent_node creates the agent and its
\* AgentResult (RUNNING) and makes attempt 0
agent_node(t) ==
    /\ pc[t] = "sched"
    /\ idx[t] <= Len(agent_sequence[t])
    /\ agent_result' = [agent_result EXCEPT ![t] =
                           AgentResult(CurrentAgent(t), t, "running")]
    /\ attempt' = [attempt EXCEPT ![t] = 0]
    /\ EnterSemaphore(t, log[t])
    /\ UNCHANGED <<tool_vars, cancel_vars, registry_vars, key_vars>>
    /\ UNCHANGED <<config, cleanupDefined, agent_sequence, custom_config, idx,
                   gstate, returned, task_storage, slept>>

\* a queued attempt gets its slot
acquire(t) ==
    /\ pc[t] = "wait_sem"
    /\ semaphore_free
    /\ semaphore' = semaphore - 1
    /\ pc' = [pc EXCEPT ![t] = "exec"]
    /\ log' = [log EXCEPT ![t] = Append(@, Event("begin", CurrentAgent(t)))]
    /\ UNCHANGED <<tool_vars, cancel_vars, registry_vars, key_vars>>
    /\ UNCHANGED <<config, cleanupDefined, agent_sequence, custom_config, idx,
                   attempt, agent_result, gstate, returned, task_storage,
                   slept>>

\* the graph reached __end__: ainvoke returns the final values
graph_end(t) ==
    /\ pc[t] = "sched"
    /\ idx[t] > Len(agent_sequence[t])
    /\ ReturnResult(t, gstate[t])
    /\ UNCHANGED <<tool_vars, cancel_vars, registry_vars, key_vars>>
    /\ UNCHANGED <<config, cleanupDefined, semaphore, agent_sequence,
                   custom_config, idx, attempt, agent_result, gstate, slept,
                   log>>

\* faulty variant: every node is handed the state execute_task began with
node_state_initial(t) == AgentState(t, initial_data(t))

\* the AgentState the graph hands the node that runs: its current values,
\* as the nodes before it returned them
node_state(t) == gstate[t]

\* faulty variant: the outcome kept in the state is the latest one only
StoreResult_replaces(st, res) ==
    [st EXCEPT !.agent_results = <<res>>]

\* lines 151-159 / 164-174 of agent_node: the AgentResult is finished and
\* stored in the node's state
StoreResult(st, res) ==
    [st EXCEPT !.agent_results = Append(@, res)]

\* lines 153-154: the outcome of a step whose logic returned, `v` being
\* shared_data.get(f"{agent_id}_result")
completed_result(r, v) == [r EXCEPT !.status = "completed", !.result = v]

\* faulty variant: the error is recorded, the status is left as it was
failed_result_keeps_status(r, e) == [r EXCEPT !.error = e]

\* lines 166-167: the outcome of a step that was given up with exception e
failed_result(r, e) == [r EXCEPT !.status = "failed", !.error = e]

\* the finally block, then the way out of the node `exc` (NoError: the node
\* returned) leaves it: a missing cleanup() replaces either by AttributeError
LeaveNode(t, exc) ==
    IF cleanup_raises(CurrentAgent(t))
    THEN NoCleanupAttr(CurrentAgent(t))
    ELSE exc

\* the history after the node's finally block ran
CleanupLog(t, l) ==
    IF cleanup_raises(CurrentAgent(t)) THEN l
    ELSE Append(l, Event("cleanup", CurrentAgent(t)))

\* the agent's logic returns: the slot is released, the result is stored
\* COMPLETED, cleanup runs and the graph moves to the next node
agent_succeeds(t) ==
    /\ pc[t] = "exec"
    /\ semaphore' = semaphore + 1
    /\ LET a == CurrentAgent(t)
           data == DictPut(node_state(t).shared_data, ResultKey(a),
                           ResultValue(a, t))
           res == completed_result(agent_result[t],
                                   DictGet(data, ResultKey(a)))
           st == StoreResult([node_state(t) EXCEPT !.shared_data = data],
                             res)
           exc == LeaveNode(t, NoError)
       IN /\ agent_result' = [agent_result EXCEPT ![t] = res]
          /\ gstate' = [gstate EXCEPT ![t] = st]
          /\ IF exc # NoError
             THEN /\ ReturnState(t, exc)
                  /\ UNCHANGED idx
             ELSE /\ idx' = [idx EXCEPT ![t] = next_node(t, idx[t])]
                  /\ pc' = [pc EXCEPT ![t] = "sched"]
                  /\ UNCHANGED <<returned, task_storage>>
    /\ log' = [log EXCEPT ![t] =
                  CleanupLog(t, Append(@, Event("ok", CurrentAgent(t))))]
    /\ UNCHANGED <<tool_vars, cancel_vars, registry_vars, key_vars>>
    /\ UNCHANGED <<config, cleanupDefined, agent_sequence, custom_config,
                   attempt, slept>>

\* attempt == self.config.max_retries: the loop gives up
retries_exhausted(t) == attempt[t] = retry_config(t).max_retries

\* faulty variant: the failure is recorded and the graph goes on
abort_plan_goes_on(t, exc) ==
    /\ idx' = [idx EXCEPT ![t] = next_node(t, idx[t])]
    /\ pc' = [pc EXCEPT ![t] = "sched"]
    /\ UNCHANGED <<returned, task_storage>>

\* after a terminal failure the exception leaves ainvoke: no further node
abort_plan(t, exc) ==
    /\ ReturnState(t, exc)
    /\ UNCHANGED idx

\* faulty variant: the slot is kept while the loop handles the exception
slots_after_raise_held == semaphore

\* the exception leaves `async with self.semaphore` before the except
\* branch of the loop runs: the slot is free again
slots_after_raise == semaphore + 1

\* the agent's logic raises: the slot is released; either the loop goes to
\* the next attempt (RETRYING, retry_count, sleep) or the retries are
\* exhausted, the result is stored FAILED, cleanup runs and the exception
\* leaves the graph
agent_fails(t) ==
    /\ pc[t] = "exec"
    /\ semaphore' = slots_after_raise
    /\ LET a == CurrentAgent(t)
           e == ExecError(a, attempt[t] + 1)
       IN IF retries_exhausted(t)
          THEN LET res == failed_result(agent_result[t], e)
                   st == StoreResult([node_state(t) EXCEPT !.error = e], res)
               IN /\ agent_result' = [agent_result EXCEPT ![t] = res]
                  /\ gstate' = [gstate EXCEPT ![t] = st]
                  /\ abort_plan(t, LeaveNode(t, e))
                  /\ log' = [log EXCEPT ![t] =
                                CleanupLog(t, Append(@, Event("raise", a)))]
                  /\ UNCHANGED attempt
          ELSE /\ attempt' = [attempt EXCEPT ![t] = @ + 1]
               /\ agent_result' = [agent_result EXCEPT ![t] =
                     [@ EXCEPT !.status = "retrying",
                               !.retry_count = attempt[t] + 1]]
               /\ pc' = [pc EXCEPT ![t] = "sleep"]
               /\ log' = [log EXCEPT ![t] = Append(@, Event("raise", a))]
               /\ UNCHANGED <<gstate, returned, task_storage, idx>>
    /\ UNCHANGED <<tool_vars, cancel_vars, registry_vars, key_vars>>
    /\ UNCHANGED <<config, cleanupDefined, agent_sequence, custom_config,
                   slept>>

\* asyncio.sleep(delay) is over: the retry enters the semaphore
wake(t) ==
    /\ pc[t] = "sleep"
    /\ slept' = [slept EXCEPT ![t] = @ + retry_delay_of(t, attempt[t])]
    /\ EnterSemaphore(t, Append(log[t], Event("slept", CurrentAgent(t))))
    /\ UNCHANGED <<tool_vars, cancel_vars, registry_vars, key_vars>>
    /\ UNCHANGED <<config, cleanupDefined, agent_sequence, custom_config, idx,
                   attempt, agent_result, gstate, returned, task_storage>>

\* faulty variant: a cancelled attempt keeps its slot
slots_after_cancel_leaks(t) == semaphore

\* async with self.semaphore, left by CancelledError: an attempt that was
\* executing gives its slot back; one that was queueing or sleeping held none
slots_after_cancel(t) ==
    IF pc[t] = "exec" THEN semaphore + 1 ELSE semaphore

\* what execute_task catches when the deadline cancels the plan. With no
\* node in flight it is asyncio.TimeoutError. With a node in flight whose
\* finally block raises AttributeError, the graph library decides whether
\* that exception or the cancellation leaves ainvoke (it does when the node
\* is awaited in ainvoke's own coroutine, not when it runs as a task of its
\* own): either may happen.
deadline_errors(t) ==
    IF pc[t] = "sched" THEN {TaskTimeout}
    ELSE {TaskTimeout, LeaveNode(t, TaskTimeout)}

\* asyncio.wait_for(..., timeout=config.timeout) expires while ainvoke is
\* suspended: the plan is cancelled where it waits. A node in flight gives
\* its slot back and runs its finally block; CancelledError is no Exception,
\* so no result is stored.
deadline(t) ==
    /\ pc[t] \in {"sched", "wait_sem", "exec", "sleep"}
    /\ semaphore' = slots_after_cancel(t)
    /\ LET l0 == Append(log[t], Event("deadline", "-"))
           l1 == IF pc[t] = "exec"
                 THEN Append(l0, Event("cancelled", CurrentAgent(t)))
                 ELSE l0
       IN /\ \E err \in deadline_errors(t) : ReturnState(t, err)
          /\ log' = [log EXCEPT ![t] =
                        IF pc[t] = "sched" THEN l0 ELSE CleanupLog(t, l1)]
    /\ UNCHANGED <<tool_vars, cancel_vars, registry_vars, key_vars>>
    /\ UNCHANGED <<config, cleanupDefined, agent_sequence, custom_config, idx,
                   attempt, agent_result, gstate, slept>>

Next ==
    \E t \in Tasks :
        \/ create_task(t)
        \/ execute_task(t)
        \/ agent_node(t)
        \/ acquire(t)
        \/ agent_succeeds(t)
        \/ agent_fails(t)
        \/ wake(t)
        \/ graph_end(t)
        \/ deadline(t)

Spec == Init /\ [][Next]_vars

\* a step of the coroutine of task t: what the event loop runs when the
\* coroutine is ready (the background run is scheduled, the slot it waits
\* for is free, the logic it awaits ends, its sleep is over)
Step(t) ==
    \/ execute_task(t)
    \/ agent_node(t)
    \/ acquire(t)
    \/ agent_succeeds(t)
    \/ agent_fails(t)
    \/ wake(t)
    \/ graph_end(t)

\* the runs in which termination is looked at: the tasks share a single
\* slot, and every agent class defines cleanup(), so that plans run on
\* after their first step
FairInit ==
    /\ Init
    /\ config.concurrent_agents = 1
    /\ \A a \in Registered : cleanupDefined[a]

\* the event loop runs every coroutine that stays ready, and every attempt
\* of a step's logic ends; when the deadline fires is left open
FairSpec ==
    FairInit /\ [][Next]_vars /\ \A t \in Tasks : WF_vars(Step(t))

\* what get_task_status answers for an id it does not know (None)
NoStatus == [found |-> FALSE, status |-> "none", agent_results |-> <<>>]

\* get_task_status: the record of a task found in self.task_results, with
\* status RUNNING when its execution_metadata has none
get_task_status(t) ==
    IF t \in DOMAIN task_results
    THEN [found |-> TRUE,
          status |-> IF task_results[t].status = "unset" THEN "running"
                     ELSE task_results[t].status,
          agent_results |-> task_results[t].agent_results]
    ELSE NoStatus

(***************************************************************************)
(* Cancellation: DELETE /tasks/{task_id} and AgentOrchestrator.cancel_task *)
(***************************************************************************)
\* faulty variant: the handler marks the record whatever the engine answered
cancel_storage_always(t, cancelled) ==
    [task_storage EXCEPT ![t].status = "cancelled"]

\* the handler after orchestrator.cancel_task returned `cancelled`: the
\* record becomes CANCELLED only when the engine cancelled the task
cancel_storage(t, cancelled) ==
    IF cancelled THEN [task_storage EXCEPT ![t].status = "cancelled"]
    ELSE task_storage

\* cancel_task(task_id): a task found in running_tasks is cancelled and
\* forgotten (True); any other id is answered False, "not running"
cancel_task(t) ==
    LET cancelled == t \in running_tasks
    IN /\ cancel_reply' = [cancel_reply EXCEPT ![t] =
                              IF cancelled THEN "cancelled"
                              ELSE "not_running"]
       /\ running_tasks' = running_tasks \ {t}
       /\ task_storage' = cancel_storage(t, cancelled)
       /\ IF cancelled
          THEN /\ pc' = [pc EXCEPT ![t] = "done"]
               /\ semaphore' = IF pc[t] = "exec" THEN semaphore + 1
                               ELSE semaphore
          ELSE UNCHANGED <<pc, semaphore>>
       /\ UNCHANGED <<tool_vars, registry_vars, key_vars, config,
                      cleanupDefined,
                      agent_sequence, custom_config, idx, attempt, agent_result, gstate,
                      returned, slept, log, task_results>>

\* the runs in which cancel requests arrive: one slot, and the agent
\* classes either all define cleanup() or, as shipped, none does
InitCancel ==
    /\ Init
    /\ config.concurrent_agents = 1
    /\ \A a, b \in Registered : cleanupDefined[a] = cleanupDefined[b]

NextCancel ==
    \/ Next
    \/ \E t \in Tasks : cancel_task(t)

CancelSpec == InitCancel /\ [][NextCancel]_vars

(***************************************************************************)
(* The tool layer: BaseTool.__call__, execute_with_retry and the cache     *)
(***************************************************************************)
\* the state of the engine and of the registry, which no invocation of
\* the tool writes
engine_vars ==
    <<config, cleanupDefined, semaphore, pc, agent_sequence, custom_config,
      idx, attempt, agent_result, gstate, returned, task_storage, slept, log,
      cancel_vars, registry_vars, key_vars>>

\* the cache key of caller c's invocation
KeyOf(c) == get_cache_key(ToolName, call[c].kwargs)

\* faulty variant: no entry is ever taken for valid
is_cache_valid_never(key) == FALSE

\* faulty variant: an entry whose age equals cache_ttl is still valid
is_cache_valid_inclusive(key) ==
    /\ tool_config.cache_enabled
    /\ key \in DOMAIN cache_timestamps
    /\ (now - cache_timestamps[key]) <= tool_config.cache_ttl

\* _is_cache_valid
is_cache_valid(key) ==
    /\ tool_config.cache_enabled
    /\ key \in DOMAIN cache_timestamps
    /\ (now - cache_timestamps[key]) < tool_config.cache_ttl

\* _get_cached_result
get_cached_result(key) ==
    IF is_cache_valid(key) THEN cache[key] ELSE NoResult

\* faulty variant: whatever execute_with_retry returned is cached
should_cache_any(res) == TRUE

\* __call__: if result.status == ToolStatus.COMPLETED
should_cache(res) == res.status = "completed"

\* _cache_result, as called by __call__: the result and time.time() are
\* stored under the key when caching is enabled
cache_result(key, res) ==
    IF should_cache(res) /\ tool_config.cache_enabled
    THEN /\ cache' = DictPut(cache, key, res)
         /\ cache_timestamps' = DictPut(cache_timestamps, key, now)
    ELSE UNCHANGED <<cache, cache_timestamps>>

\* execute_with_retry returns `res` after an attempt that ended `how` (its
\* locals are gone); __call__ caches it when it is COMPLETED and returns it
tool_return(c, res, how) ==
    /\ call' = [call EXCEPT ![c] =
                   [@ EXCEPT !.pc = "idle", !.result = res, !.how = how,
                             !.attempt = 0,
                             !.last_exception = NoToolError]]
    /\ cache_result(KeyOf(c), res)

\* what caller c's invocation (name, kw) is after __call__ ran up to its
\* first suspension: _get_cache_key raises TypeError for arguments
\* json.dumps cannot serialise; a valid cached result is returned at once;
\* otherwise attempt 0 of execute begins
invoked(c, name, kw) ==
    LET key == get_cache_key(ToolName, kw)
        cached == get_cached_result(key)
        seen == IF key \in DOMAIN cache_timestamps
                THEN [has |-> TRUE, age |-> now - cache_timestamps[key],
                      result |-> cache[key]]
                ELSE NoSeen
        asked == [IdleCall EXCEPT !.kwargs = kw, !.name = name]
        started == [asked EXCEPT !.seen = seen]
    IN IF ~json_serializable(kw)
       THEN [asked EXCEPT !.raised = NotSerializable]
       ELSE IF cached # NoResult
       THEN [started EXCEPT !.result = cached]
       ELSE [started EXCEPT !.pc = "exec", !.began = 1]

\* faulty variant: serving an entry stamps it with the time of the hit
invoke_refreshes(c, name, kw) ==
    /\ call' = [call EXCEPT ![c] = invoked(c, name, kw)]
    /\ cache_timestamps' =
          IF invoked(c, name, kw).pc = "idle" /\ json_serializable(kw)
          THEN DictPut(cache_timestamps, get_cache_key(ToolName, kw), now)
          ELSE cache_timestamps
    /\ UNCHANGED cache

\* __call__ up to its first suspension: nothing but the caller's invocation
\* changes; the lookup in the cache writes neither dict
invoke(c, name, kw) ==
    /\ call' = [call EXCEPT ![c] = invoked(c, name, kw)]
    /\ UNCHANGED <<cache, cache_timestamps>>

\* the tool instance is called
tool_call(c) ==
    /\ call[c].pc = "idle"
    /\ \E kw \in Kwargs : invoke(c, ToolName, kw)
    /\ UNCHANGED <<tool_config, now, engine_vars>>

\* faulty variant: the answer for an unknown name does not say which
not_found_result_unnamed(name) ==
    ToolResult("failed", NoData, NotFound("-"))

\* ToolRegistry.execute_tool for a name self.tools does not hold
not_found_result(name) == ToolResult("failed", NoData, NotFound(name))

\* ToolRegistry.execute_tool: a name that is not registered is answered
\* with a FAILED ToolResult; for a registered name the tool is called
execute_tool(c) ==
    /\ call[c].pc = "idle"
    /\ \E name \in AskedNames, kw \in Kwargs :
          IF \E i \in DOMAIN tools : tools[i] = name
          THEN invoke(c, name, kw)
          ELSE /\ call' = [call EXCEPT ![c] =
                              [IdleCall EXCEPT
                                  !.name = name,
                                  !.result = not_found_result(name)]]
               /\ UNCHANGED <<cache, cache_timestamps>>
    /\ UNCHANGED <<tool_config, now, engine_vars>>

\* execute returns a ToolResult with status COMPLETED
execute_completes(c) ==
    /\ call[c].pc = "exec"
    /\ tool_return(c, ToolResult("completed", DataOf(KeyOf(c), now),
                                 NoToolError), "completed")
    /\ UNCHANGED <<tool_config, now, engine_vars>>

\* execute returns a ToolResult with status FAILED without raising: it is
\* returned as it is, no retry is made
execute_reports_failure(c) ==
    /\ call[c].pc = "exec"
    /\ tool_return(c, ToolResult("failed", NoData, Reported), "reported")
    /\ UNCHANGED <<tool_config, now, engine_vars>>

\* faulty variant: the loop gives up one attempt early
tool_retries_exhausted_early(c) ==
    call[c].attempt >= tool_config.max_retries - 1

\* the last pass of `for attempt in range(self.config.max_retries + 1)`
tool_retries_exhausted(c) == call[c].attempt = tool_config.max_retries

\* an attempt ended with the exception e: the loop goes on to the next
\* attempt (sleep first), or after the last one a FAILED ToolResult with
\* str(last_exception) is returned
attempt_failed(c, e, how) ==
    IF tool_retries_exhausted(c)
    THEN tool_return(c, ToolResult("failed", NoData, e), how)
    ELSE /\ call' = [call EXCEPT ![c] =
                        [@ EXCEPT !.pc = "sleep", !.attempt = @ + 1,
                                  !.last_exception = e, !.how = how]]
         /\ UNCHANGED <<cache, cache_timestamps>>

\* execute raises
execute_raises(c) ==
    /\ call[c].pc = "exec"
    /\ attempt_failed(c, Raised(call[c].attempt + 1), "raised")
    /\ UNCHANGED <<tool_config, now, engine_vars>>

\* asyncio.wait_for(self.execute(...), timeout=self.config.timeout) expires
execute_times_out(c) ==
    /\ call[c].pc = "exec"
    /\ attempt_failed(c, TimedOut, "timed_out")
    /\ UNCHANGED <<tool_config, now, engine_vars>>

\* the backoff sleep before a retry is over: execute is awaited again
retry_wake(c) ==
    /\ call[c].pc = "sleep"
    /\ call' = [call EXCEPT ![c] = [@ EXCEPT !.pc = "exec", !.began = @ + 1]]
    /\ UNCHANGED <<tool_config, now, cache, cache_timestamps, engine_vars>>

\* time.time() advances
tick ==
    /\ now < MaxTime
    /\ now' = now + 1
    /\ UNCHANGED <<tool_config, cache, cache_timestamps, call, engine_vars>>

\* one engine, idle, and a tool instance with caching on or off
ToolInit ==
    /\ EngineInit
    /\ config.concurrent_agents = 1
    /\ \A a \in Registered : ~cleanupDefined[a]
    /\ \E cfg \in ToolConfigs : ToolInitial(cfg)
    /\ RegistryInitial

ToolNext ==
    \/ \E c \in Callers :
          \/ tool_call(c)
          \/ execute_tool(c)
          \/ execute_completes(c)
          \/ execute_reports_failure(c)
          \/ execute_raises(c)
          \/ execute_times_out(c)
          \/ retry_wake(c)
    \/ tick

ToolSpec == ToolInit /\ [][ToolNext]_vars

(***************************************************************************)
(* The registry: registration at startup, cleanup_all at shutdown          *)
(***************************************************************************)
\* the state of the engine and of the tool, which no registry action writes
beside_registry ==
    <<config, cleanupDefined, semaphore, pc, agent_sequence, custom_config,
      idx, attempt, agent_result, gstate, returned, task_storage, slept, log,
      cancel_vars, tool_vars, key_vars>>

\* ToolRegistry.register: self.tools[tool.name] = tool; a name that is
\* already there keeps its place in the dict
register(name) ==
    /\ shutdown = "up"
    /\ tools' = IF \E i \in DOMAIN tools : tools[i] = name
                THEN tools
                ELSE Append(tools, name)
    /\ UNCHANGED <<hook_fails, released, shutdown, beside_registry>>

\* lifespan after the yield: cleanup_all begins to iterate self.tools
shutdown_begins ==
    /\ shutdown = "up"
    /\ shutdown' = "cleaning"
    /\ UNCHANGED <<tools, hook_fails, released, beside_registry>>

\* the tool whose cleanup() the loop of cleanup_all awaits next
next_release == tools[Len(released) + 1]

\* cleanup_all: await tool.cleanup() returns, the loop goes on
tool_cleanup_returns ==
    /\ shutdown = "cleaning"
    /\ Len(released) < Len(tools)
    /\ next_release \notin hook_fails
    /\ released' = Append(released, next_release)
    /\ UNCHANGED <<tools, hook_fails, shutdown, beside_registry>>

\* cleanup_all: await tool.cleanup() raises; nothing in the loop catches
\* it, it leaves cleanup_all and lifespan logs "Error during shutdown"
tool_cleanup_raises ==
    /\ shutdown = "cleaning"
    /\ Len(released) < Len(tools)
    /\ next_release \in hook_fails
    /\ released' = Append(released, next_release)
    /\ shutdown' = "error"
    /\ UNCHANGED <<tools, hook_fails, beside_registry>>

\* cleanup_all returns after the last tool; lifespan logs "Cleanup completed"
cleanup_completed ==
    /\ shutdown = "cleaning"
    /\ Len(released) = Len(tools)
    /\ shutdown' = "clean"
    /\ UNCHANGED <<tools, hook_fails, released, beside_registry>>

\* an empty registry, and any choice of the tools whose cleanup() raises
RegistryInit ==
    /\ EngineInit
    /\ config.concurrent_agents = 1
    /\ \A a \in Registered : ~cleanupDefined[a]
    /\ ToolInitial([cache_enabled |-> TRUE, cache_ttl |-> CacheTtl,
                    max_retries |-> ToolMaxRetries])
    /\ tools = <<>>
    /\ hook_fails \in SUBSET ToolNames
    /\ released = <<>>
    /\ shutdown = "up"

RegistryNext ==
    \/ \E name \in ToolNames : register(name)
    \/ shutdown_begins
    \/ tool_cleanup_returns
    \/ tool_cleanup_raises
    \/ cleanup_completed

RegistrySpec == RegistryInit /\ [][RegistryNext]_vars

(***************************************************************************)
(* The cache key: _get_cache_key applied to names and arguments            *)
(***************************************************************************)
\* the tool called `name` computes the key of the arguments kw for caller c
get_key(c) ==
    /\ \E name \in ToolNames, kw \in KeyKwargs :
          keyed' = [keyed EXCEPT ![c] =
                       [name |-> name, kwargs |-> kw,
                        key |-> get_cache_key(name, kw)]]
    /\ UNCHANGED <<config, cleanupDefined, semaphore, pc, agent_sequence,
                   custom_config, idx, attempt, agent_result, gstate,
                   returned, task_storage, slept, log, cancel_vars,
                   tool_vars, registry_vars>>

KeyInit ==
    /\ Init
    /\ config.concurrent_agents = 1
    /\ \A a \in Registered : ~cleanupDefined[a]

KeyNext == \E c \in Callers : get_key(c)

KeySpec == KeyInit /\ [][KeyNext]_vars

(***************************************************************************)
(* Vocabulary of the properties                                            *)
(***************************************************************************)
Done(t) == pc[t] = "done"
Submitted(t) == pc[t] # "none"
Range(s) == {s[i] : i \in DOMAIN s}
AllRegistered(s) == Range(s) \subseteq Registered
Executing == {t \in Tasks : pc[t] = "exec"}

\* positions of the history of t holding event e of agent a
Positions(t, e, a) ==
    {p \in DOMAIN log[t] : log[t][p] = Event(e, a)}
Count(t, e, a) == Cardinality(Positions(t, e, a))
Happened(t, e) == \E p \in DOMAIN log[t] : log[t][p].ev = e
Expired(t) == Happened(t, "deadline")

\* the agents whose logic began, one entry per step, in order of first begin
FirstBegins(t) ==
    LET firsts == {p \in DOMAIN log[t] :
                      /\ log[t][p].ev = "begin"
                      /\ \A q \in 1..(p - 1) : log[t][q] # log[t][p]}
        sel == SelectSeq([p \in DOMAIN log[t] |-> IF p \in firsts
                                                     THEN log[t][p].agent
                                                     ELSE "-"],
                         LAMBDA x : x # "-")
    IN sel

\* the ids of a dict of AgentResults, in insertion order
Ids(rs) == [i \in DOMAIN rs |-> rs[i].agent_id]
\* the AgentResults stored for agent a
Stored(rs, a) == {rs[i] : i \in {j \in DOMAIN rs : rs[j].agent_id = a}}

\* the step at index i of t was given up: its AgentResult is FAILED
GivenUp(t, i) ==
    /\ i \in DOMAIN agent_sequence[t]
    /\ \E r \in Stored(gstate[t].agent_results, agent_sequence[t][i]) :
          r.status = "failed"

RECURSIVE SumOver(_, _)
SumOver(f, S) ==
    IF S = {} THEN 0
    ELSE LET x == CHOOSE y \in S : TRUE IN f[x] + SumOver(f, S \ {x})

\* the total of the backoff sleeps that ended, had each retry i of a step
\* slept cfg.retry_delay * cfg.retry_backoff^(i-1)
SleepUnder(t, cfg) ==
    LET ended == {p \in DOMAIN log[t] : log[t][p].ev = "slept"}
        retryNo(p) == Cardinality({q \in 1..p :
                         log[t][q] = Event("raise", log[t][p].agent)})
        d == [p \in ended |->
                 cfg.retry_delay * Pow(cfg.retry_backoff, retryNo(p) - 1)]
    IN SumOver(d, ended)

(***************************************************************************)
(* C1                                                                      *)
(***************************************************************************)
\* C1 (as claimed): for every sequence of registered steps whose steps all
\* succeed, the steps' logic begins in the listed order, a step begins only
\* after the step before it returned, every step of the sequence runs, and
\* the agent_results of the returned state list the steps in the listed order.
C1_ListedOrder ==
    \A t \in Tasks :
        (AllRegistered(agent_sequence[t]) /\ ~Happened(t, "raise")
            /\ ~Expired(t))
        => /\ \A p \in DOMAIN log[t] :
                 log[t][p].ev = "begin" =>
                    \E i \in DOMAIN agent_sequence[t] :
                       /\ agent_sequence[t][i] = log[t][p].agent
                       /\ i > 1 => \E q \in 1..(p - 1) :
                             log[t][q] = Event("ok", agent_sequence[t][i - 1])
           /\ Done(t) =>
                 /\ FirstBegins(t) = agent_sequence[t]
                 /\ Ids(returned[t].state.agent_results) = agent_sequence[t]

(***************************************************************************)
(* C2                                                                      *)
(***************************************************************************)
\* C2: a task whose sequence names an unregistered step, at any position,
\* never gets past construction: once started it is finished, status FAILED,
\* the error names an unregistered id of the sequence, no step's logic ran
\* and no step outcome exists, also for registered steps listed before it.
C2_ConstructionFailure ==
    \A t \in Tasks :
        (pc[t] \notin {"none", "pending"} /\ ~AllRegistered(agent_sequence[t]))
        => /\ Done(t)
           /\ returned[t].kind = "AgentState"
           /\ returned[t].state.status = "failed"
           /\ returned[t].state.error.kind = "not_registered"
           /\ returned[t].state.error.agent
                 \in Range(agent_sequence[t]) \ Registered
           /\ task_storage[t].status = "failed"
           /\ log[t] = <<>>
           /\ returned[t].state.agent_results = <<>>
           /\ gstate[t].agent_results = <<>>
           /\ agent_result[t] = NoAgentResult

\* a registered step listed before the unregistered one, and the task failed
C2_Witness ==
    \E t \in Tasks :
        /\ Done(t)
        /\ agent_sequence[t] = <<"a", "x">>
        /\ returned[t].state.error = NotRegistered("x")

(***************************************************************************)
(* C3                                                                      *)
(***************************************************************************)
\* C3 (as claimed): a task whose registered steps all succeed within the
\* deadline ends COMPLETED with no error in execution_metadata, every step
\* has an outcome with status completed, and shared_data holds each step's
\* result under the key derived from the step's name.
C3_AllSucceedCompleted ==
    \A t \in Tasks :
        (Done(t) /\ AllRegistered(agent_sequence[t])
            /\ ~Happened(t, "raise") /\ ~Expired(t))
        => /\ task_storage[t].status = "completed"
           /\ returned[t].state.error = NoError
           /\ \A i \in DOMAIN agent_sequence[t] :
                 LET a == agent_sequence[t][i]
                 IN /\ \E r \in Stored(returned[t].state.agent_results, a) :
                          r.status = "completed"
                    /\ DictGet(returned[t].state.shared_data, ResultKey(a))
                          = ResultValue(a, t)

(***************************************************************************)
(* C4                                                                      *)
(***************************************************************************)
\* C4 (as claimed): a step that fails k <= max_retries times and then
\* succeeds ends completed with retry_count = k, and the task does not fail
\* because of those failures: no step is given up while it has failed at most
\* the task's max_retries times, and a completed step's retry_count is the
\* number of its failed attempts and its failures are not the task's error.
C4_RetriedThenCompleted ==
    \A t \in Tasks :
        \A i \in DOMAIN gstate[t].agent_results :
            LET r == gstate[t].agent_results[i]
                k == Count(t, "raise", r.agent_id)
            IN /\ r.status = "failed" => k > task_config(t).max_retries
               /\ r.status = "completed" =>
                     /\ r.retry_count = k
                     /\ ~(returned[t].state.error.kind = "agent_raised"
                          /\ returned[t].state.error.agent = r.agent_id)

(***************************************************************************)
(* C5                                                                      *)
(***************************************************************************)
\* C5 (as claimed): a step that is given up was executed exactly
\* max_retries + 1 times (the task's max_retries), its outcome has
\* retry_count = max_retries and the error of the last attempt, and the task
\* status is FAILED.
C5_ExhaustedAfterMaxRetries ==
    \A t \in Tasks :
        \A i \in DOMAIN gstate[t].agent_results :
            LET r == gstate[t].agent_results[i]
                n == Count(t, "begin", r.agent_id)
            IN r.status = "failed" =>
                  /\ n = task_config(t).max_retries + 1
                  /\ r.retry_count = task_config(t).max_retries
                  /\ r.error = ExecError(r.agent_id, n)
                  /\ returned[t].state.status = "failed"
                  /\ task_storage[t].status = "failed"

(***************************************************************************)
(* C6                                                                      *)
(***************************************************************************)
\* C6: once a step of a task was given up, the task is over and no later
\* step of its sequence has begun an attempt, taken a slot or got an outcome.
C6_FailFast ==
    \A t \in Tasks :
        \A i \in DOMAIN agent_sequence[t] :
            GivenUp(t, i) =>
               /\ Done(t)
               /\ \A j \in (i + 1)..Len(agent_sequence[t]) :
                     LET b == agent_sequence[t][j]
                     IN /\ \A p \in DOMAIN log[t] : log[t][p].agent # b
                        /\ Stored(gstate[t].agent_results, b) = {}
                        /\ Stored(returned[t].state.agent_results, b) = {}
                        /\ agent_result[t].agent_id # b

\* a given-up step with a step listed after it
C6_Witness ==
    \E t \in Tasks : GivenUp(t, 1) /\ Len(agent_sequence[t]) >= 2

(***************************************************************************)
(* C7                                                                      *)
(***************************************************************************)
\* C7 (as claimed): when the first step completed and the second was given
\* up, the state execute_task returns holds both outcomes (completed, and
\* failed with its retry_count) and the task status is FAILED.
C7_ReturnedStateAccumulated ==
    \A t \in Tasks :
        (Done(t) /\ Len(gstate[t].agent_results) >= 2
            /\ gstate[t].agent_results[1].status = "completed"
            /\ gstate[t].agent_results[2].status = "failed")
        => /\ Len(returned[t].state.agent_results) >= 2
           /\ returned[t].state.agent_results[1]
                 = gstate[t].agent_results[1]
           /\ returned[t].state.agent_results[2]
                 = gstate[t].agent_results[2]
           /\ returned[t].state.status = "failed"

(***************************************************************************)
(* C8                                                                      *)
(***************************************************************************)
\* C8: over all tasks of the engine, at most concurrent_agents (of the
\* engine's configuration) attempts execute step logic at once.
C8_ConcurrencyCeiling ==
    Cardinality(Executing) <= config.concurrent_agents

\* ceiling 1: one task executes while the other waits for the slot
C8_Witness ==
    /\ config.concurrent_agents = 1
    /\ \E t, u \in Tasks : pc[t] = "exec" /\ pc[u] = "wait_sem"

(***************************************************************************)
(* C9                                                                      *)
(***************************************************************************)
\* C9 (as claimed): when every task was submitted with a task configuration
\* whose concurrent_agents is 1, steps of two tasks never execute at once.
C9_TaskCeilingSerializes ==
    (\A t \in Tasks : /\ Submitted(t)
                      /\ custom_config[t] # NoConfig
                      /\ custom_config[t].concurrent_agents = 1)
    => Cardinality(Executing) <= 1

(***************************************************************************)
(* C10                                                                     *)
(***************************************************************************)
\* C10 (as claimed): the retry policy is the task's own configuration (the
\* engine's when none was given): each step is attempted at most its
\* max_retries + 1 times and the backoff slept is computed from its
\* retry_delay and retry_backoff.
C10_TaskRetryPolicy ==
    \A t \in Tasks :
        Submitted(t) =>
           /\ \A a \in AgentIds :
                 Count(t, "begin", a) <= task_config(t).max_retries + 1
           /\ slept[t] = SleepUnder(t, task_config(t))

(***************************************************************************)
(* C11                                                                     *)
(***************************************************************************)
\* C11 (as claimed): whenever the deadline of a task expired before its plan
\* finished, execute_task ends with status FAILED and the error
\* "Task timeout", whatever the steps would have done.
C11_DeadlineTaskTimeout ==
    \A t \in Tasks :
        (Done(t) /\ Expired(t))
        => /\ returned[t].state.status = "failed"
           /\ returned[t].state.error = TaskTimeout

(***************************************************************************)
(* C14                                                                     *)
(***************************************************************************)
\* the engine started the step of agent a: agent_node created its AgentResult
Started(t, a) ==
    \/ agent_result[t].agent_id = a
    \/ a \in Range(Ids(gstate[t].agent_results))

\* the step of agent a is over: its logic returned, it was given up, or the
\* task ended while it was in flight
StepOver(t, a) ==
    /\ Started(t, a)
    /\ \/ Count(t, "ok", a) > 0
       \/ Stored(gstate[t].agent_results, a) # {}
       \/ Done(t)

\* C14 (as claimed): the release hook of every step the engine started runs
\* exactly once, after the step's last attempt, on every way out of the step
\* (success, retries exhausted, deadline), never more than once, and the
\* task's outcome never comes from the hook.
C14_CleanupExactlyOnce ==
    \A t \in Tasks : \A a \in Registered :
        /\ Count(t, "cleanup", a) <= 1
        /\ StepOver(t, a) => Count(t, "cleanup", a) = 1
        /\ \A p \in Positions(t, "cleanup", a) :
              \A q \in DOMAIN log[t] :
                 (log[t][q].agent = a /\ q # p) => q < p
        /\ returned[t].state.error.kind # "no_attribute_cleanup"

(***************************************************************************)
(* C15                                                                     *)
(***************************************************************************)
\* the plan of t did not run to its end: a step is unregistered, a step did
\* not return or was not released, or the deadline expired
Failure(t) ==
    \/ ~AllRegistered(agent_sequence[t])
    \/ Expired(t)
    \/ \E i \in DOMAIN agent_sequence[t] :
          \/ Count(t, "ok", agent_sequence[t][i]) = 0
          \/ Count(t, "cleanup", agent_sequence[t][i]) = 0

\* C15: execute_task always returns a state and never a fault: a finished
\* task has a returned state carrying its task id; when the plan failed
\* (unregistered step, retries exhausted, release hook missing, deadline)
\* that state has an error and status FAILED, and otherwise no error.
C15_NoFaultEscapes ==
    \A t \in Tasks :
        /\ pc[t] \in {"none", "pending", "sched", "wait_sem", "exec", "sleep",
                      "done"}
        /\ Done(t) <=> returned[t].kind \in {"dict", "AgentState"}
        /\ Done(t) =>
              /\ returned[t].state.task_id = t
              /\ Failure(t) => /\ returned[t].state.error # NoError
                               /\ returned[t].state.status = "failed"
              /\ ~Failure(t) => returned[t].state.error = NoError

\* a task ended by its deadline, one by a missing release hook and one by
\* exhausted retries have all returned
C15_Witness ==
    /\ \E t \in Tasks :
          Done(t) /\ returned[t].state.error.kind
                        \in {"task_timeout", "no_attribute_cleanup"}
    /\ \E t \in Tasks :
          Done(t) /\ returned[t].state.error.kind = "agent_raised"

(***************************************************************************)
(* C12, C13                                                                *)
(***************************************************************************)
\* the plan of t is executing: started and not yet returned
Running(t) == pc[t] \in {"sched", "wait_sem", "exec", "sleep"}

\* this step answers a cancel request for t
Answers(t) == cancel_reply'[t] # cancel_reply[t]

\* C12 (as claimed): a cancel request for a task that is executing stops the
\* task where it is (no further attempt, no further sleep) and sets the
\* task's status to CANCELLED.
C12_CancelStopsRunning ==
    [][\A t \in Tasks :
          (Answers(t) /\ Running(t))
          => /\ cancel_reply'[t] = "cancelled"
             /\ task_storage'[t].status = "cancelled"
             /\ ~Running(t)']_vars

\* C13: a cancel request for a task that is not executing (never submitted,
\* pending, finished) is answered "not running" and changes neither the
\* task's status, nor its step outcomes, nor the engine's running_tasks,
\* nor anything else of the engine.
C13_CancelNotRunningNoop ==
    [][\A t \in Tasks :
          (Answers(t) /\ ~Running(t))
          => /\ cancel_reply'[t] = "not_running"
             /\ UNCHANGED <<task_storage, running_tasks, semaphore, pc,
                            agent_result, gstate, returned, idx, attempt,
                            log>>]_vars

\* a cancel request was answered for a task still pending, and one for a
\* task that had finished with its record COMPLETED or FAILED
C13_Witness ==
    /\ \E t \in Tasks : pc[t] = "pending" /\ cancel_reply[t] = "not_running"
    /\ \E t \in Tasks :
          /\ Done(t) /\ cancel_reply[t] = "not_running"
          /\ task_storage[t].status \in {"completed", "failed"}

(***************************************************************************)
(* Vocabulary of the tool properties                                       *)
(***************************************************************************)
\* caller c's invocation has begun (it is in flight or has returned)
Invoked(c) == call[c].pc # "idle" \/ call[c].result # NoResult
\* caller c's invocation has returned
Returned(c) == call[c].pc = "idle" /\ call[c].result # NoResult
\* when c's invocation started, an entry for its parameters was stored and
\* younger than cache_ttl
SawFresh(c) ==
    /\ tool_config.cache_enabled
    /\ call[c].seen.has
    /\ call[c].seen.age < tool_config.cache_ttl
\* when c's invocation started, an entry for its parameters was stored and
\* its age had reached cache_ttl
SawExpired(c) ==
    /\ tool_config.cache_enabled
    /\ call[c].seen.has
    /\ call[c].seen.age >= tool_config.cache_ttl
\* this step is the return of c's invocation from an execution
ReturnsFromExecution(c) == call[c].pc = "exec" /\ call'[c].pc = "idle"
\* caller c asked the registry for a name it does not hold
AskedUnknown(c) ==
    /\ call[c].name # "-"
    /\ \A i \in DOMAIN tools : tools[i] # call[c].name
\* caller c's invocation of the tool returned without any execution
ServedFromCache(c) ==
    Returned(c) /\ call[c].began = 0 /\ ~AskedUnknown(c)

(***************************************************************************)
(* C16                                                                     *)
(***************************************************************************)
\* C16: with caching enabled, an invocation that starts while the result of
\* an earlier successful invocation with the same parameters is stored and
\* younger than cache_ttl executes the operation not at all (the earlier
\* execution stays the only one) and returns that stored result.
C16_CachedWithinTtl ==
    \A c \in Callers :
        (Invoked(c) /\ SawFresh(c))
        => /\ Returned(c)
           /\ call[c].began = 0
           /\ call[c].result = call[c].seen.result
           /\ call[c].result.status = "completed"
           /\ call[c].result.data.of = KeyOf(c)

\* an invocation was served an entry stored one tick before it started
C16_Witness ==
    \E c \in Callers :
        /\ Returned(c) /\ SawFresh(c)
        /\ call[c].seen.age = tool_config.cache_ttl - 1
        /\ call[c].began = 0

(***************************************************************************)
(* C17                                                                     *)
(***************************************************************************)
\* C17: an entry whose age has reached cache_ttl is not served: an
\* invocation with the same parameters that starts then executes the
\* operation again, and when it succeeds the entry is replaced by the new
\* result, stamped with the time it is stored.
C17_ExpiredNotServed ==
    /\ [](\A c \in Callers :
             (Invoked(c) /\ SawExpired(c)) => call[c].began >= 1)
    /\ [][\A c \in Callers :
             (ReturnsFromExecution(c) /\ SawExpired(c)
                 /\ call'[c].result.status = "completed")
             => /\ cache'[KeyOf(c)] = call'[c].result
                /\ cache_timestamps'[KeyOf(c)] = now
                /\ call'[c].result # call[c].seen.result]_vars

\* an invocation that started exactly cache_ttl after the entry was stored
\* executed, succeeded and its result is the entry now
C17_Witness ==
    \E c \in Callers :
        /\ Returned(c) /\ SawExpired(c)
        /\ call[c].seen.age = tool_config.cache_ttl
        /\ call[c].began >= 1
        /\ call[c].result.status = "completed"
        /\ cache[KeyOf(c)] = call[c].result

(***************************************************************************)
(* C18                                                                     *)
(***************************************************************************)
\* C18 (as claimed): with caching enabled, two invocations with identical
\* parameters of which the second starts before the first has completed
\* never both execute the operation.
C18_AtMostOnceConcurrent ==
    tool_config.cache_enabled =>
        \A c1, c2 \in Callers :
            (c1 # c2 /\ KeyOf(c1) = KeyOf(c2))
            => ~(call[c1].pc = "exec" /\ call[c2].pc = "exec")

(***************************************************************************)
(* C19                                                                     *)
(***************************************************************************)
\* the error execute_with_retry keeps of an attempt that ended `how`
ErrorOf(how, n) == IF how = "timed_out" THEN TimedOut ELSE Raised(n)

\* no attempt of c's invocation returned: the last one raised or timed out
\* (the loop goes on to a further attempt only after one that did)
AllAttemptsFailed(c) == call[c].how \in {"raised", "timed_out"}

\* C19: no invocation executes the operation more than max_retries + 1
\* times; one whose every attempt raised or timed out has, when it returns,
\* executed it exactly max_retries + 1 times and returns status FAILED with
\* the error of the last attempt (for a timeout, the timed-out error naming
\* the tool and the timeout).
C19_RetriesThenFailed ==
    \A c \in Callers :
        /\ call[c].began <= tool_config.max_retries + 1
        /\ (Returned(c) /\ AllAttemptsFailed(c))
           => /\ call[c].began = tool_config.max_retries + 1
              /\ call[c].result.status = "failed"
              /\ call[c].result.error = ErrorOf(call[c].how, call[c].began)

\* one invocation returned FAILED after a last attempt that timed out,
\* another after a last attempt that raised
C19_Witness ==
    \E c, d \in Callers :
        /\ Returned(c) /\ call[c].how = "timed_out"
        /\ call[c].result.error = TimedOut
        /\ Returned(d) /\ call[d].how = "raised"
        /\ call[d].result.error = Raised(tool_config.max_retries + 1)

C21_NeverRaises ==
    \A c \in Callers :
        /\ call[c].raised = NoToolError
        /\ Returned(c) => call[c].result.status \in {"completed", "failed"}

(***************************************************************************)
(* C22                                                                     *)
(***************************************************************************)
\* this step answers caller c, who asks the registry for an unknown name
AnswersUnknown(c) ==
    /\ call[c].pc = "idle"
    /\ call'[c] # call[c]
    /\ call'[c].name # "-"
    /\ \A i \in DOMAIN tools : tools[i] # call'[c].name

\* C22: asking the registry to invoke a name that is not registered returns
\* at once a ToolResult with status failed and the error "Tool <name> not
\* found" naming that name; nothing is raised, no execution of any tool
\* begins, and the step leaves the registry, the cache and the other
\* callers' invocations as they were.
C22_UnknownToolNotFound ==
    /\ [](\A c \in Callers :
             AskedUnknown(c) =>
                /\ call[c].result =
                       ToolResult("failed", NoData, NotFound(call[c].name))
                /\ call[c].raised = NoToolError
                /\ call[c].pc = "idle"
                /\ call[c].began = 0
                /\ call[c].attempt = 0)
    /\ [][\A c \in Callers :
             AnswersUnknown(c) =>
                /\ UNCHANGED <<tools, cache, cache_timestamps>>
                /\ \A d \in Callers \ {c} : call'[d] = call[d]]_vars

\* a caller was answered "Tool llm not found" while the other caller's
\* invocation of the registered tool is executing
C22_Witness ==
    \E c, d \in Callers :
        /\ c # d
        /\ call[c].name = "llm" /\ AskedUnknown(c)
        /\ call[c].result.error = NotFound("llm")
        /\ call[d].name = ToolName /\ call[d].pc = "exec"

(***************************************************************************)
(* C23                                                                     *)
(***************************************************************************)
\* how often cleanup_all invoked the cleanup() of the tool called name
TimesReleased(name) ==
    Cardinality({i \in DOMAIN released : released[i] = name})

\* C23 (as claimed): when cleanup_all has ended, with or without a failing
\* hook, the cleanup() of every registered tool has been invoked exactly
\* once.
C23_EveryHookOnce ==
    shutdown \in {"clean", "error"} =>
        \A i \in DOMAIN tools : TimesReleased(tools[i]) = 1

\* no hook is invoked twice, and only hooks of registered tools are
\* invoked, in the order of registration
C23_NoHookTwice ==
    /\ Len(released) <= Len(tools)
    /\ \A i \in DOMAIN released : released[i] = tools[i]
    /\ \A i \in DOMAIN tools : TimesReleased(tools[i]) <= 1

(***************************************************************************)
(* C24                                                                     *)
(***************************************************************************)
\* C24 (as claimed): for a task the engine has begun to execute,
\* get_task_status returns a record with the task's status and the outcomes
\* of its steps, while it runs and after it finished; it returns nothing
\* only for ids the engine never executed.
C24_StatusAfterExecution ==
    \A t \in Tasks :
        LET known == pc[t] \notin {"none", "pending"}
        IN /\ get_task_status(t).found <=> known
           /\ known =>
                 get_task_status(t).agent_results = gstate[t].agent_results

(***************************************************************************)
(* C25                                                                     *)
(***************************************************************************)
\* how many entries of the history of t are event e
Events(t, e) == Cardinality({p \in DOMAIN log[t] : log[t][p].ev = e})

\* C25: every attempt that entered the semaphore left it exactly once, by
\* returning, raising or being cancelled by the deadline, unless it is
\* executing now; the free slots are never below zero nor above the
\* engine's concurrent_agents, and they are all free whenever no attempt is
\* executing.
C25_SemaphoreAccounting ==
    /\ semaphore \in 0..config.concurrent_agents
    /\ semaphore = config.concurrent_agents - Cardinality(Executing)
    /\ Executing = {} => semaphore = config.concurrent_agents
    /\ \A t \in Tasks :
          Events(t, "begin") =
             Events(t, "ok") + Events(t, "raise") + Events(t, "cancelled")
             + (IF t \in Executing THEN 1 ELSE 0)

\* an executing attempt was cancelled by the deadline, another one raised,
\* and all slots are free again
C25_Witness ==
    /\ Executing = {}
    /\ semaphore = config.concurrent_agents
    /\ \E t \in Tasks : Events(t, "cancelled") = 1
    /\ \E t \in Tasks : Events(t, "raise") >= 1

(***************************************************************************)
(* C26                                                                     *)
(***************************************************************************)
\* C26: once the deadline of a task expired the task is over and reported
\* FAILED, it holds no slot, and from then on nothing of it moves: no
\* attempt begins or goes on, no sleep ends, no later step starts, no
\* outcome is written.
C26_NothingAfterDeadline ==
    /\ [](\A t \in Tasks :
             Expired(t) => /\ Done(t)
                           /\ t \notin Executing
                           /\ returned[t].state.status = "failed"
                           /\ task_storage[t].status = "failed")
    /\ [][\A t \in Tasks :
             Expired(t) => /\ log'[t] = log[t]
                           /\ slept'[t] = slept[t]
                           /\ idx'[t] = idx[t]
                           /\ attempt'[t] = attempt[t]
                           /\ agent_result'[t] = agent_result[t]
                           /\ gstate'[t] = gstate[t]
                           /\ pc'[t] = pc[t]]_vars

\* the deadline expired while the first of several steps was executing or
\* sleeping before a retry, and all slots are free
C26_Witness ==
    \E t \in Tasks :
        /\ Expired(t) /\ Done(t)
        /\ Len(agent_sequence[t]) > 1 /\ idx[t] = 1
        /\ agent_result[t].status \in {"running", "retrying"}
        /\ \E u \in Tasks :
              /\ Expired(u) /\ agent_result[u].status = "retrying"
              /\ Events(u, "begin") = 1

(***************************************************************************)
(* C27                                                                     *)
(***************************************************************************)
\* the sum over i = 1..k of retry_delay * retry_backoff^(i-1)
RECURSIVE BackoffSum(_, _)
BackoffSum(cfg, k) ==
    IF k = 0 THEN 0
    ELSE BackoffSum(cfg, k - 1)
         + cfg.retry_delay * Pow(cfg.retry_backoff, k - 1)

\* C27 (as claimed): before retry i of a step the engine sleeps the task's
\* retry_delay * retry_backoff^(i-1): no sleep of a step ends before an
\* attempt of it failed, a step that failed k times and then succeeded slept
\* k times, and the time a task slept is, summed over its steps, the sum
\* over the retries i of each of retry_delay * retry_backoff^(i-1).
C27_BackoffSum ==
    \A t \in Tasks :
        /\ \A a \in Registered :
              /\ \A p \in Positions(t, "slept", a) :
                    \E q \in 1..(p - 1) : log[t][q] = Event("raise", a)
              /\ Count(t, "ok", a) > 0 =>
                    Count(t, "slept", a) = Count(t, "raise", a)
        /\ slept[t] =
              SumOver([a \in Registered |->
                          BackoffSum(task_config(t), Count(t, "slept", a))],
                      Registered)

(***************************************************************************)
(* C28                                                                     *)
(***************************************************************************)
\* the retries of the step of agent a that began to execute
RetriesBegun(t, a) ==
    IF Count(t, "begin", a) = 0 THEN 0 ELSE Count(t, "begin", a) - 1

\* C28 (as claimed): in every state the retry_count of a step outcome, in
\* flight or stored, is the number of retries of the step that began to
\* execute; a retry given up in its backoff sleep is not counted.
C28_RetryCountBegun ==
    \A t \in Tasks :
        /\ agent_result[t].agent_id # "-" =>
              agent_result[t].retry_count
                 = RetriesBegun(t, agent_result[t].agent_id)
        /\ \A i \in DOMAIN gstate[t].agent_results :
              gstate[t].agent_results[i].retry_count
                 = RetriesBegun(t, gstate[t].agent_results[i].agent_id)

(***************************************************************************)
(* C29                                                                     *)
(***************************************************************************)
\* every step outcome there is for t: the one in flight, those stored in
\* the state, in the returned state and in the API's record
Outcomes(t) ==
    {agent_result[t]}
    \cup Range(gstate[t].agent_results)
    \cup Range(returned[t].state.agent_results)
    \cup Range(task_storage[t].agent_results)

\* C29: in every state, a step outcome has a result only if its status is
\* COMPLETED and an error only if its status is FAILED or TIMEOUT.
C29_ResultErrorPresence ==
    \A t \in Tasks : \A r \in Outcomes(t) :
        /\ r.result # Null => r.status = "completed"
        /\ r.error # NoError => r.status \in {"failed", "timeout"}

\* a task whose first step completed with a result and whose second step
\* was given up with an error
C29_Witness ==
    \E t \in Tasks :
        /\ Len(gstate[t].agent_results) = 2
        /\ gstate[t].agent_results[1].result # Null
        /\ gstate[t].agent_results[2].error # NoError

(***************************************************************************)
(* C30                                                                     *)
(***************************************************************************)
Terminal == {"completed", "failed", "timeout"}

\* the moves of a step outcome's status after `first`, the status it is
\* created with: running, then retrying any number of times, then terminal
Moves(first) ==
    (IF first = "running" THEN {} ELSE {<<first, "running">>})
    \cup {<<"running", "retrying">>, <<"retrying", "retrying">>}
    \cup {<<s, e>> : s \in {"running", "retrying"}, e \in Terminal}

\* in this step the outcome in flight of every task is either created with
\* status `first`, or left alone, or changed along Moves(first) and not out
\* of a terminal status; and the outcomes stored in the state stay as stored
Lifecycle(first) ==
    \A t \in Tasks :
        LET o == agent_result[t]
            n == agent_result'[t]
        IN /\ (n # o /\ n.agent_id # o.agent_id) =>
                 n = AgentResult(n.agent_id, t, first)
           /\ (n # o /\ n.agent_id = o.agent_id) =>
                 /\ o.status \notin Terminal
                 /\ <<o.status, n.status>> \in Moves(first)
           /\ (pc[t] # "pending") =>
                 \A i \in DOMAIN gstate[t].agent_results :
                    /\ i \in DOMAIN gstate'[t].agent_results
                    /\ gstate'[t].agent_results[i] = gstate[t].agent_results[i]
           /\ \A i \in DOMAIN gstate'[t].agent_results :
                 i \notin DOMAIN gstate[t].agent_results =>
                    /\ gstate'[t].agent_results[i] = n
                    /\ n.status \in Terminal

\* C30 (as claimed): a step outcome is created PENDING, its status moves
\* only pending -> running -> (retrying)* -> completed, failed or timeout,
\* and once terminal its status, result, error and retry_count never change.
C30_LifecycleFromPending == [][Lifecycle("pending")]_vars

\* C30 (amended): a step outcome is created RUNNING (never PENDING), its
\* status moves only running -> (retrying)* -> completed or failed, it is
\* stored in the state only when terminal, and once terminal its status,
\* result, error and retry_count never change.
C30_LifecycleFromRunning ==
    /\ [][Lifecycle("running")]_vars
    /\ [](\A t \in Tasks : \A r \in Outcomes(t) :
             r.status \in {"none", "running", "retrying", "completed",
                           "failed"})

\* a step was retried and completed, and the step after it was given up
C30_Witness ==
    \E t \in Tasks :
        /\ Len(gstate[t].agent_results) = 2
        /\ gstate[t].agent_results[1].status = "completed"
        /\ gstate[t].agent_results[1].retry_count >= 1
        /\ gstate[t].agent_results[2].status = "failed"

(***************************************************************************)
(* C31                                                                     *)
(***************************************************************************)
\* agent_node ran for the step of agent a: its AgentResult was created
StepStarted(t, a) ==
    \/ agent_result[t].agent_id = a
    \/ Count(t, "begin", a) > 0

\* the entries agent_results holds for agent a
EntriesOf(rs, a) == {i \in DOMAIN rs : rs[i].agent_id = a}

\* C31 (as claimed): in every state of a task, agent_results holds exactly
\* one entry for every step that has started (also while its attempt is in
\* flight, while it sleeps before a retry, and after the deadline abandoned
\* it) and none for a step that has not started.
C31_EntryPerStartedStep ==
    \A t \in Tasks : \A a \in Registered :
        Cardinality(EntriesOf(gstate[t].agent_results, a))
            = IF StepStarted(t, a) THEN 1 ELSE 0

\* the entries of agent_results are only added: none is removed, replaced
\* by another step's entry or stored a second time
C31_EntriesOnlyAdded ==
    /\ [][\A t \in Tasks :
             pc[t] # "pending" =>
                \A i \in DOMAIN gstate[t].agent_results :
                   /\ i \in DOMAIN gstate'[t].agent_results
                   /\ gstate'[t].agent_results[i].agent_id
                         = gstate[t].agent_results[i].agent_id]_vars
    /\ [](\A t \in Tasks : \A a \in Registered :
             Cardinality(EntriesOf(gstate[t].agent_results, a)) <= 1)

(***************************************************************************)
(* C32                                                                     *)
(***************************************************************************)
\* the attempts of agent b that began before position p of the history of t
\* and had not ended (returned, raised, been cancelled) by then
OpenBefore(t, p, b) ==
    Cardinality({q \in 1..(p - 1) : log[t][q] = Event("begin", b)})
    - Cardinality({q \in 1..(p - 1) :
                      /\ log[t][q].agent = b
                      /\ log[t][q].ev \in {"ok", "raise", "cancelled"}})

\* C32: within a task, while step N+1 is the current step (so when its
\* first attempt starts), shared_data holds the initial data and, for each
\* of the steps 1..N, the value that step wrote under its key; an attempt of
\* a step begins only after every step listed before it returned, and never
\* while an attempt of another step of the task is executing.
C32_EffectsVisibleInOrder ==
    \A t \in Tasks :
        /\ idx[t] >= 1 =>
              /\ \A k \in DOMAIN initial_data(t) :
                    DictGet(gstate[t].shared_data, k) = initial_data(t)[k]
              /\ \A j \in 1..(idx[t] - 1) :
                    j \in DOMAIN agent_sequence[t] =>
                       DictGet(gstate[t].shared_data,
                               ResultKey(agent_sequence[t][j]))
                          = ResultValue(agent_sequence[t][j], t)
        /\ \A p \in DOMAIN log[t] :
              log[t][p].ev = "begin" =>
                 /\ \E i \in DOMAIN agent_sequence[t] :
                       /\ agent_sequence[t][i] = log[t][p].agent
                       /\ \A j \in 1..(i - 1) :
                             \E q \in 1..(p - 1) :
                                log[t][q] = Event("ok", agent_sequence[t][j])
                 /\ \A b \in Registered \ {log[t][p].agent} :
                       OpenBefore(t, p, b) = 0

\* the first attempt of the second step is executing, and shared_data holds
\* what the first step wrote and the initial data
C32_Witness ==
    \E t \in Tasks :
        /\ agent_sequence[t] = <<"a", "b">>
        /\ idx[t] = 2 /\ pc[t] = "exec" /\ attempt[t] = 0
        /\ DictGet(gstate[t].shared_data, ResultKey("a"))
              = ResultValue("a", t)
        /\ DOMAIN gstate[t].shared_data
              = DOMAIN initial_data(t) \cup {ResultKey("a")}

(***************************************************************************)
(* C33                                                                     *)
(***************************************************************************)
\* C33 (as claimed): an execution that returns a ToolResult with status
\* FAILED without raising counts as a failed attempt: the invocation
\* returns such a result to its caller only after max_retries retries, that
\* is after max_retries + 1 executions.
C33_ReportedFailureRetried ==
    \A c \in Callers :
        (Returned(c) /\ call[c].how = "reported")
        => call[c].began = tool_config.max_retries + 1

(***************************************************************************)
(* C34                                                                     *)
(***************************************************************************)
\* in this step caller c's invocation of the tool is answered at once,
\* without any execution: it is served from the cache
HitStep(c) ==
    /\ call[c].pc = "idle"
    /\ call'[c] # call[c]
    /\ call'[c].pc = "idle"
    /\ call'[c].result # NoResult
    /\ \E i \in DOMAIN tools : tools[i] = call'[c].name

\* C34: a cache hit changes nothing: the step that serves an entry begins no
\* execution, returns the entry as it is stored and leaves both the stored
\* result and its timestamp as they were; an entry's timestamp changes only
\* when an execution for its key returns COMPLETED, so the entry expires
\* cache_ttl after it was stored however often it was served.
C34_CacheHitChangesNothing ==
    /\ [][\A c \in Callers :
             HitStep(c) =>
                /\ UNCHANGED <<cache, cache_timestamps>>
                /\ call'[c].began = 0
                /\ KeyOf(c)' \in DOMAIN cache
                /\ call'[c].result = cache[KeyOf(c)']
                /\ now - cache_timestamps[KeyOf(c)'] < tool_config.cache_ttl
                /\ \A d \in Callers \ {c} : call'[d] = call[d]]_vars
    /\ [][\A k \in DOMAIN cache_timestamps :
             /\ k \in DOMAIN cache_timestamps'
             /\ (cache_timestamps'[k] # cache_timestamps[k]
                    \/ cache'[k] # cache[k])
                => \E c \in Callers :
                      /\ ReturnsFromExecution(c)
                      /\ KeyOf(c) = k
                      /\ call'[c].result.status = "completed"
                      /\ cache_timestamps'[k] = now]_vars

\* the same entry was served to both callers, at different ages, and still
\* carries the time at which its result was produced
C34_Witness ==
    \E c, d \in Callers :
        /\ ServedFromCache(c) /\ ServedFromCache(d)
        /\ KeyOf(c) = KeyOf(d)
        /\ call[c].seen.age = 0 /\ call[d].seen.age >= 1
        /\ KeyOf(c) \in DOMAIN cache
        /\ cache[KeyOf(c)] = call[d].result
        /\ cache_timestamps[KeyOf(c)] = call[d].result.data.at

(***************************************************************************)
(* C35                                                                     *)
(***************************************************************************)
\* the (parameter name, value) pairs of keyword arguments
Items(kw) == {kw[i] : i \in DOMAIN kw}
\* a key was computed for caller c
Keyed(c) == keyed[c].name # "-"

\* C35 (as claimed): the key depends only on the tool name and the set of
\* (parameter name, value) pairs: two applications get the same key exactly
\* when their tool names are equal and their parameters are the same pairs,
\* in whatever order they were given.
C35_KeyOfNameAndItems ==
    \A c, d \in Callers :
        (Keyed(c) /\ Keyed(d)) =>
           ((keyed[c].key = keyed[d].key)
              <=> (/\ keyed[c].name = keyed[d].name
                   /\ Items(keyed[c].kwargs) = Items(keyed[d].kwargs)))

\* the same name and the same pairs, in any order, give the same key, and
\* different names or different parameter names give different keys
C35_SameItemsSameKey ==
    \A c, d \in Callers :
        (Keyed(c) /\ Keyed(d)) =>
           /\ (/\ keyed[c].name = keyed[d].name
               /\ Items(keyed[c].kwargs) = Items(keyed[d].kwargs))
              => keyed[c].key = keyed[d].key
           /\ keyed[c].name # keyed[d].name
              => keyed[c].key # keyed[d].key
           /\ {kv[1] : kv \in Items(keyed[c].kwargs)}
                 # {kv[1] : kv \in Items(keyed[d].kwargs)}
              => keyed[c].key # keyed[d].key

(***************************************************************************)
(* C36                                                                     *)
(***************************************************************************)
\* C36 (as claimed): for a task that ended by its deadline or by a
\* construction error, the record polling callers read has status FAILED and
\* the engine's error: "Task timeout", respectively the message naming the
\* unregistered step.
C36_RecordKeepsEngineError ==
    \A t \in Tasks :
        (Done(t) /\ returned[t].state.error.kind
                       \in {"task_timeout", "not_registered"})
        => /\ task_storage[t].status = "failed"
           /\ task_storage[t].error = returned[t].state.error

\* the record of such a task has status FAILED
C36_RecordFailed ==
    \A t \in Tasks :
        (Done(t) /\ returned[t].state.error.kind
                       \in {"task_timeout", "not_registered"})
        => task_storage[t].status = "failed"

(***************************************************************************)
(* C37                                                                     *)
(***************************************************************************)
\* the moves of a task record's status from one suspension point to the
\* next. A construction failure is recorded in the same run of the
\* coroutine that set RUNNING (nothing is awaited in between), so the
\* record goes from PENDING through RUNNING to FAILED in one step.
StatusMoves ==
    {<<"absent", "pending">>, <<"pending", "running">>,
     <<"pending", "failed">>, <<"running", "completed">>,
     <<"running", "failed">>, <<"running", "cancelled">>}

TerminalStatus == {"completed", "failed", "cancelled"}

\* C37: a task's recorded status only moves PENDING -> RUNNING -> COMPLETED,
\* FAILED or CANCELLED: a terminal status is never replaced (no completion,
\* failure or cancel request that arrives later changes it), and the record
\* becomes CANCELLED only in the step that answers a cancel request
\* "cancelled" for a task whose record was RUNNING.
C37_StatusMovesForward ==
    [][\A t \in Tasks :
          LET o == task_storage[t].status
              n == task_storage'[t].status
          IN /\ n # o => <<o, n>> \in StatusMoves
             /\ o \in TerminalStatus => n = o
             /\ (n = "cancelled" /\ o # "cancelled") =>
                   /\ Answers(t)
                   /\ cancel_reply'[t] = "cancelled"
                   /\ o = "running"]_vars

\* one task's record is COMPLETED and the other's FAILED, and a cancel
\* request for each of them has been answered
C37_Witness ==
    \E t, u \in Tasks :
        /\ Done(t) /\ task_storage[t].status = "completed"
        /\ Done(u) /\ task_storage[u].status = "failed"
        /\ cancel_reply[t] = "not_running"
        /\ cancel_reply[u] = "not_running"

(***************************************************************************)
(* C38                                                                     *)
(***************************************************************************)
\* C38: a step sleeping in backoff between two attempts holds no slot: the
\* slots in use are those of the attempts of other tasks that are
\* executing, so with nothing executing every slot is free and a step of
\* another task that waits for a slot can take it, also when
\* concurrent_agents = 1.
C38_SleepHoldsNoSlot ==
    \A t \in Tasks :
        pc[t] = "sleep" =>
           /\ config.concurrent_agents - semaphore
                 = Cardinality({u \in Tasks \ {t} : pc[u] = "exec"})
           /\ (\A u \in Tasks \ {t} : pc[u] # "exec") => semaphore_free
           /\ \A u \in Tasks \ {t} : pc[u] = "wait_sem" => semaphore_free

\* with a single slot, one task's step sleeps before its retry while a step
\* of the other task is executing
C38_Witness ==
    /\ config.concurrent_agents = 1
    /\ \E t, u \in Tasks :
          /\ pc[t] = "sleep" /\ attempt[t] >= 1
          /\ pc[u] = "exec"
          /\ semaphore = 0

(***************************************************************************)
(* C39                                                                     *)
(***************************************************************************)
\* C39: every task that was submitted eventually ends, with a state
\* returned by execute_task (by completion, retry exhaustion, construction
\* failure or deadline); so no attempt waits for a slot forever and the
\* semaphore does not deadlock the tasks.
C39_EveryTaskReturns ==
    \A t \in Tasks : Submitted(t) ~> (Done(t) /\ returned[t] # NotReturned)

\* with a single slot both tasks have ended, one of them after it waited
\* for the slot the other held, and one after a backoff sleep
C39_Witness ==
    /\ config.concurrent_agents = 1
    /\ \A t \in Tasks : Done(t) /\ returned[t] # NotReturned
    /\ \E t \in Tasks : Happened(t, "slept")
    /\ \E t, u \in Tasks :
          /\ t # u
          /\ Happened(t, "begin") /\ Happened(u, "begin")

(***************************************************************************)
(* C40                                                                     *)
(***************************************************************************)
\* caller c's invocation of the registered tool has ended: it returned a
\* ToolResult or an exception left it
Ended(c) ==
    /\ call[c].pc = "idle"
    /\ call[c].name # "-"
    /\ ~AskedUnknown(c)

\* C40 (as claimed): with cache_enabled = false every invocation of the
\* tool executes the operation (none is answered without an execution) and
\* both the cache and the timestamps stay empty.
C40_DisabledAlwaysExecutes ==
    ~tool_config.cache_enabled =>
       /\ DOMAIN cache = {} /\ DOMAIN cache_timestamps = {}
       /\ \A c \in Callers : Ended(c) => call[c].began >= 1

\* with cache_enabled = false both dicts stay empty, no invocation is
\* served from a cache, and every invocation that returned executed
C40_DisabledNeverServes ==
    ~tool_config.cache_enabled =>
       /\ DOMAIN cache = {} /\ DOMAIN cache_timestamps = {}
       /\ \A c \in Callers :
             /\ ~call[c].seen.has
             /\ (Returned(c) /\ ~AskedUnknown(c)) => call[c].began >= 1

====
